---- MODULE Spec2Model ----
(***************************************************************************)
(* A model of CryptoDataIngester (src/CryptoDataIngester.py): the pull     *)
(* gate, the initialization tracker, the page tracker, the three update    *)
(* functions and the run_updater loop with its exception routing.          *)
(*                                                                         *)
(* Time is a discrete clock `now`.  Reads of current_time inside one       *)
(* function before its request return the same tick; a request (get) takes *)
(* a latency of 0..MaxLatency ticks and a sleep takes its configured       *)
(* number of ticks.                                                        *)
(***************************************************************************)
EXTENDS Integers, Sequences, FiniteSets, TLC

\* Python's None, for the times and pages that start unset (all real values are >= 0).
None == -1

-----------------------------------------------------------------------------
\* Bounds of the model.
MaxTime == 12
MaxLatency == 1
MaxSeconds == 2
MaxId == 1
MaxPrice == 2
MaxCalls == 8

\* The values config.yml may give the fields the engine reads.
Seconds == 1..MaxSeconds
PageLengths == {2, 100}
ActiveCryptocurrencies == {3, 250}
Configs ==
    [pull_frequency_minimum_interval : Seconds,
     timeout : {1},
     error_timeout : Seconds,
     refresh_period : Seconds,
     listing_pull_frequency : {2, MaxTime},
     global_pull_frequency : {1},
     page_length : PageLengths]

VARIABLES
    cfg,                  \* the configuration read at construction
    now,                  \* current_time
    pc,                   \* "start" | "loop" | "done" | "crashed" | "cursor" | "gate"
    running,
    tracker,              \* InitializedStruct
    page_tracker,         \* PageTracker
    last_pull,
    last_listing_update,
    timeout_start,
    in_timeout,
    currency_df,
    obs,                  \* what the last loop iteration (or call) did
    hist                  \* what the run did so far

vars == <<cfg, now, pc, running, tracker, page_tracker, last_pull,
          last_listing_update, timeout_start, in_timeout, currency_df, obs, hist>>

-----------------------------------------------------------------------------
\* InitializedStruct

InitializedStruct ==
    [listing_initialized |-> FALSE,
     tickers_initialized |-> FALSE,
     global_content_initialized |-> FALSE,
     first_ticker_added |-> FALSE]

initialized(tr) ==
    tr.listing_initialized /\ tr.tickers_initialized /\ tr.global_content_initialized

-----------------------------------------------------------------------------
\* PageTracker

PageTracker(page_length, max_page) ==
    [page_length |-> page_length,
     max_page |-> max_page,
     next_page |-> None,
     completed_full_cycle |-> FALSE,
     last_page |-> None]

\* next_page with the wrap test off by one (>= where the code has >).
next_page_wraps_early(pt) ==
    IF pt.next_page = None
    THEN [pt |-> [pt EXCEPT !.last_page = 1, !.next_page = pt.page_length + 1],
          ret |-> 1, exc |-> FALSE]
    ELSE LET advanced == pt.next_page + pt.page_length
             moved == [pt EXCEPT !.last_page = pt.next_page, !.next_page = advanced]
         IN IF pt.max_page = None
            THEN [pt |-> moved, ret |-> None, exc |-> TRUE]
            ELSE IF advanced >= pt.max_page
            THEN [pt |-> [moved EXCEPT !.next_page = 1, !.completed_full_cycle = TRUE],
                  ret |-> pt.next_page, exc |-> FALSE]
            ELSE [pt |-> moved, ret |-> pt.next_page, exc |-> FALSE]

\* next_page with a flag that is cleared by every call that does not wrap.
next_page_clears_flag(pt) ==
    IF pt.next_page = None
    THEN [pt |-> [pt EXCEPT !.last_page = 1, !.next_page = pt.page_length + 1,
                            !.completed_full_cycle = FALSE],
          ret |-> 1, exc |-> FALSE]
    ELSE LET advanced == pt.next_page + pt.page_length
             moved == [pt EXCEPT !.last_page = pt.next_page, !.next_page = advanced,
                                 !.completed_full_cycle = FALSE]
         IN IF pt.max_page = None
            THEN [pt |-> moved, ret |-> None, exc |-> TRUE]
            ELSE IF advanced > pt.max_page
            THEN [pt |-> [moved EXCEPT !.next_page = 1, !.completed_full_cycle = TRUE],
                  ret |-> pt.next_page, exc |-> FALSE]
            ELSE [pt |-> moved, ret |-> pt.next_page, exc |-> FALSE]

\* next_page whose first call leaves the pointer at page_length (not page_length + 1).
next_page_short_first(pt) ==
    IF pt.next_page = None
    THEN [pt |-> [pt EXCEPT !.last_page = 1, !.next_page = pt.page_length],
          ret |-> 1, exc |-> FALSE]
    ELSE LET advanced == pt.next_page + pt.page_length
             moved == [pt EXCEPT !.last_page = pt.next_page, !.next_page = advanced]
         IN IF pt.max_page = None
            THEN [pt |-> moved, ret |-> None, exc |-> TRUE]
            ELSE IF advanced > pt.max_page
            THEN [pt |-> [moved EXCEPT !.next_page = 1, !.completed_full_cycle = TRUE],
                  ret |-> pt.next_page, exc |-> FALSE]
            ELSE [pt |-> moved, ret |-> pt.next_page, exc |-> FALSE]

\* The next_page property: [pt: the tracker after the call, ret: the page returned,
\* exc: whether the comparison with an unset max_page raised].
next_page(pt) ==
    IF pt.next_page = None
    THEN [pt |-> [pt EXCEPT !.last_page = 1, !.next_page = pt.page_length + 1],
          ret |-> 1, exc |-> FALSE]
    ELSE LET advanced == pt.next_page + pt.page_length
             moved == [pt EXCEPT !.last_page = pt.next_page, !.next_page = advanced]
         IN IF pt.max_page = None
            THEN [pt |-> moved, ret |-> None, exc |-> TRUE]
            ELSE IF advanced > pt.max_page
            THEN [pt |-> [moved EXCEPT !.next_page = 1, !.completed_full_cycle = TRUE],
                  ret |-> pt.next_page, exc |-> FALSE]
            ELSE [pt |-> moved, ret |-> pt.next_page, exc |-> FALSE]

coming_page(pt) == pt.next_page

-----------------------------------------------------------------------------
\* The canonical table.  A table is a sequence of rows [idx, key, price]: idx is the
\* row's index label, key the natural key (name, symbol, website_slug) and price the
\* ticker columns (NA while the row has none).  An asset's natural key is its id.

NA == None
Assets == 1..MaxId
Prices == 1..MaxPrice

\* pd.DataFrame.empty, the property object __init__ stores in _currency_df.
DataFrameEmpty == [df |-> FALSE, rows |-> <<>>]
DataFrame(rows) == [df |-> TRUE, rows |-> rows]

RECURSIVE SortedSeq(_)
SortedSeq(S) ==
    IF S = {} THEN <<>>
    ELSE LET m == CHOOSE x \in S : \A y \in S : x <= y
         IN <<m>> \o SortedSeq(S \ {m})

\* The data payloads the endpoints may return (rows sorted by id).
ListingData ==
    { [i \in 1..Cardinality(S) |-> [id |-> SortedSeq(S)[i], key |-> SortedSeq(S)[i]]] :
        S \in SUBSET Assets \ {{}} }
TickerData ==
    UNION { { [i \in 1..Cardinality(S) |->
                 [id |-> SortedSeq(S)[i], key |-> SortedSeq(S)[i], price |-> f[SortedSeq(S)[i]]]] :
              f \in [S -> Prices] } : S \in SUBSET Assets \ {{}} }

\* pd.DataFrame.from_records(data, index='id')
from_records_listing(data) ==
    DataFrame([i \in 1..Len(data) |-> [idx |-> data[i].id, key |-> data[i].key, price |-> NA]])
from_records_ticker(data) ==
    DataFrame([i \in 1..Len(data) |-> [idx |-> data[i].id, key |-> data[i].key, price |-> data[i].price]])

\* pd.merge(left, right, on=natural key, how='left'): every left row, in order, once
\* per right row with its key (once with NA when there is none); the result has a
\* fresh index 0..n-1.
RECURSIVE merge_rows(_, _)
merge_rows(left, right) ==
    IF left = <<>> THEN <<>>
    ELSE LET l == Head(left)
             hits == SelectSeq(right, LAMBDA r : r.key = l.key)
             out == IF hits = <<>> THEN <<l>>
                    ELSE [i \in 1..Len(hits) |-> [l EXCEPT !.price = hits[i].price]]
         IN out \o merge_rows(Tail(left), right)

merge_left(left, right) ==
    LET rows == merge_rows(left.rows, right.rows)
    IN DataFrame([i \in 1..Len(rows) |-> [rows[i] EXCEPT !.idx = i - 1]])

\* update that adds other's price to the price self holds instead of replacing it.
update_accumulates(self, other) ==
    DataFrame([i \in 1..Len(self.rows) |->
        LET r == self.rows[i]
            hits == SelectSeq(other.rows, LAMBDA o : o.idx = r.idx)
        IN IF hits = <<>> THEN r
           ELSE [r EXCEPT !.key = IF Head(hits).key = NA THEN @ ELSE Head(hits).key,
                          !.price = IF Head(hits).price = NA THEN @
                                    ELSE IF @ = NA THEN Head(hits).price
                                    ELSE @ + Head(hits).price]])

\* DataFrame.update(other): rows aligned on the index label; the non-NA values of
\* other's row overwrite the columns self has.
update(self, other) ==
    DataFrame([i \in 1..Len(self.rows) |->
        LET r == self.rows[i]
            hits == SelectSeq(other.rows, LAMBDA o : o.idx = r.idx)
        IN IF hits = <<>> THEN r
           ELSE [r EXCEPT !.key = IF Head(hits).key = NA THEN @ ELSE Head(hits).key,
                          !.price = IF Head(hits).price = NA THEN @ ELSE Head(hits).price]])

-----------------------------------------------------------------------------
\* The engine.  Its functions are operators from the engine's state s (a record of
\* the fields, the clock and the observations) to [s, ret, exc]; exc is "none",
\* "api" (CryptoIngestResponseError), "error" (any other exception) or "kbd"
\* (KeyboardInterrupt).

\* What a get(...).json() call may do: return a document with data, return one
\* without data, raise (transport or parsing), or be interrupted by the operator.
Responses(payloads) ==
    [kind : {"data"}, data : payloads]
      \cup [kind : {"no_data", "transport", "interrupt"}, data : {None}]

Obs0 ==
    [branch |-> "none", issued |-> <<>>, attempts |-> <<>>, gates |-> <<>>,
     exports |-> <<>>, logs |-> <<>>, sleeps |-> <<>>, exc |-> "none",
     tracker_before |-> InitializedStruct, page_tracker_before |-> PageTracker(None, None),
     ret |-> None, interrupt |-> "none", response_df |-> DataFrameEmpty]

Hist0 ==
    [last_issue |-> None, exports |-> 0, wrapped |-> FALSE, all_ok |-> TRUE,
     init_requests |-> <<>>, calls |-> 0, pages_ok |-> {}, last_listing_pull |-> None,
     budget |-> 0, failed |-> 0, tick |-> 0]

\* pull_allowed with >= on the minimum interval (the code has >).
pull_allowed_wrong(s) ==
    LET condition_1 == (s.now - s.last_pull) >= cfg.pull_frequency_minimum_interval
        condition_2 == s.timeout_start = None
                         \/ (s.now - s.timeout_start) > cfg.refresh_period
    IN [s |-> [s EXCEPT !.in_timeout = ~condition_2,
                        !.obs.gates = Append(@, [at |-> s.now, last_pull |-> s.last_pull,
                                                 timeout_start |-> s.timeout_start,
                                                 ret |-> condition_1 /\ condition_2])],
        ret |-> condition_1 /\ condition_2]

\* The pull_allowed property: it writes _in_timeout as it answers.
pull_allowed(s) ==
    LET condition_1 == (s.now - s.last_pull) > cfg.pull_frequency_minimum_interval
        condition_2 == s.timeout_start = None
                         \/ (s.now - s.timeout_start) > cfg.refresh_period
    IN [s |-> [s EXCEPT !.in_timeout = ~condition_2,
                        !.obs.gates = Append(@, [at |-> s.now, last_pull |-> s.last_pull,
                                                 timeout_start |-> s.timeout_start,
                                                 ret |-> condition_1 /\ condition_2])],
        ret |-> condition_1 /\ condition_2]

\* The request leaves: get(address) is called at s.now and returns lat ticks later.
Issue(s, ep, page, lat) ==
    [s EXCEPT !.now = @ + lat,
              !.obs.issued = Append(@, [ep |-> ep, at |-> s.now, page |-> page,
                                        since |-> s.hist.last_issue,
                                        listing_since |-> s.hist.last_listing_pull,
                                        gate |-> Len(s.obs.gates)]),
              !.hist.last_issue = s.now,
              !.hist.init_requests =
                  IF initialized(s.tracker) \/ ~s.hist.all_ok THEN @
                  ELSE Append(@, [ep |-> ep, page |-> page])]

\* The end of one update function: what it was, how it ended, whether the table changed.
Outcome(s0, s1, ep, outcome, ret, exc) ==
    [s |-> [s1 EXCEPT !.obs.attempts =
                          Append(@, [ep |-> ep, outcome |-> outcome,
                                     changed |-> s1.currency_df # s0.currency_df]),
                      !.hist.all_ok = @ /\ outcome \in {"ok", "denied"}],
     ret |-> ret, exc |-> exc]

-----------------------------------------------------------------------------
\* _update_global

\* _update_global sending its request whenever it is due, whatever the gate said.
_update_global_ungated(s, override_update, resp, lat) ==
    LET time == s.now
        due == (time - s.last_listing_update) > cfg.global_pull_frequency \/ override_update
        gate == IF due THEN pull_allowed(s) ELSE [s |-> s, ret |-> FALSE]
        sent == Issue(gate.s, "global", None, lat)
        pulled == [sent EXCEPT !.last_pull = time]
    IN IF ~due THEN Outcome(s, gate.s, "global", "denied", FALSE, "none")
       ELSE CASE resp.kind = "transport" -> Outcome(s, sent, "global", "transport", None, "error")
              [] resp.kind = "interrupt" -> Outcome(s, sent, "global", "interrupt", None, "kbd")
              [] resp.kind = "no_data" -> Outcome(s, pulled, "global", "no_data", None, "api")
              [] OTHER ->
                   Outcome(s, [pulled EXCEPT !.page_tracker.max_page = resp.data],
                           "global", "ok", TRUE, "none")

\* _update_global reporting success for a response without data, max_page left unset.
_update_global_swallows(s, override_update, resp, lat) ==
    LET time == s.now
        due == (time - s.last_listing_update) > cfg.global_pull_frequency \/ override_update
        gate == IF due THEN pull_allowed(s) ELSE [s |-> s, ret |-> FALSE]
        sent == Issue(gate.s, "global", None, lat)
        pulled == [sent EXCEPT !.last_pull = time]
    IN IF ~gate.ret THEN Outcome(s, gate.s, "global", "denied", FALSE, "none")
       ELSE CASE resp.kind = "transport" -> Outcome(s, sent, "global", "transport", None, "error")
              [] resp.kind = "interrupt" -> Outcome(s, sent, "global", "interrupt", None, "kbd")
              [] resp.kind = "no_data" -> Outcome(s, pulled, "global", "ok", TRUE, "none")
              [] OTHER ->
                   Outcome(s, [pulled EXCEPT !.page_tracker.max_page = resp.data],
                           "global", "ok", TRUE, "none")

_update_global(s, override_update, resp, lat) ==
    LET time == s.now
        due == (time - s.last_listing_update) > cfg.global_pull_frequency \/ override_update
        gate == IF due THEN pull_allowed(s) ELSE [s |-> s, ret |-> FALSE]
        sent == Issue(gate.s, "global", None, lat)
        pulled == [sent EXCEPT !.last_pull = time]
    IN IF ~gate.ret THEN Outcome(s, gate.s, "global", "denied", FALSE, "none")
       ELSE CASE resp.kind = "transport" -> Outcome(s, sent, "global", "transport", None, "error")
              [] resp.kind = "interrupt" -> Outcome(s, sent, "global", "interrupt", None, "kbd")
              [] resp.kind = "no_data" -> Outcome(s, pulled, "global", "no_data", None, "api")
              [] OTHER ->
                   Outcome(s, [pulled EXCEPT !.page_tracker.max_page = resp.data],
                           "global", "ok", TRUE, "none")

-----------------------------------------------------------------------------
\* _update_currency_list

\* _update_currency_list building (and storing) the frame before it looks for data.
_update_currency_list_clobbers(s, override_update, resp, lat) ==
    LET time == s.now
        due == (time - s.last_listing_update) > cfg.listing_pull_frequency \/ override_update
        gate == IF due THEN pull_allowed(s) ELSE [s |-> s, ret |-> FALSE]
        sent == Issue(gate.s, "listing", None, lat)
        pulled == [sent EXCEPT !.last_pull = time]
    IN IF ~gate.ret THEN Outcome(s, gate.s, "listing", "denied", FALSE, "none")
       ELSE CASE resp.kind = "transport" -> Outcome(s, sent, "listing", "transport", None, "error")
              [] resp.kind = "interrupt" -> Outcome(s, sent, "listing", "interrupt", None, "kbd")
              [] resp.kind = "no_data" ->
                   Outcome(s, [pulled EXCEPT !.currency_df = DataFrame(<<>>)],
                           "listing", "no_data", None, "api")
              [] OTHER ->
                   IF pulled.currency_df = DataFrameEmpty
                   THEN Outcome(s, [pulled EXCEPT !.currency_df = from_records_listing(resp.data)],
                                "listing", "ok", TRUE, "none")
                   ELSE Outcome(s, pulled, "listing", "merge_error", None, "error")

_update_currency_list(s, override_update, resp, lat) ==
    LET time == s.now
        due == (time - s.last_listing_update) > cfg.listing_pull_frequency \/ override_update
        gate == IF due THEN pull_allowed(s) ELSE [s |-> s, ret |-> FALSE]
        sent == Issue(gate.s, "listing", None, lat)
        pulled == [sent EXCEPT !.last_pull = time]
    IN IF ~gate.ret THEN Outcome(s, gate.s, "listing", "denied", FALSE, "none")
       ELSE CASE resp.kind = "transport" -> Outcome(s, sent, "listing", "transport", None, "error")
              [] resp.kind = "interrupt" -> Outcome(s, sent, "listing", "interrupt", None, "kbd")
              [] resp.kind = "no_data" -> Outcome(s, pulled, "listing", "no_data", None, "api")
              [] OTHER ->
                   \* `self._currency_df == pd.DataFrame.empty` is True of the property
                   \* object __init__ stored; of a DataFrame it is an elementwise frame,
                   \* whose truth value raises ValueError.
                   IF pulled.currency_df = DataFrameEmpty
                   THEN Outcome(s, [pulled EXCEPT !.currency_df = from_records_listing(resp.data),
                                                  !.hist.last_listing_pull = time],
                                "listing", "ok", TRUE, "none")
                   ELSE Outcome(s, [pulled EXCEPT !.hist.last_listing_pull = time],
                                "listing", "merge_error", None, "error")

-----------------------------------------------------------------------------
\* _update_next_ticker_set

\* The finally block: a snapshot when the coming page is 1 and _in_timeout is unset.
ticker_finally(s) ==
    IF coming_page(s.page_tracker) = 1 /\ ~s.in_timeout
    THEN [s EXCEPT !.timeout_start = s.now,
                   !.in_timeout = TRUE,
                   !.obs.exports = Append(@, [at |-> s.now, nth |-> s.hist.exports + 1,
                                              wrapped |-> s.hist.wrapped,
                                              table |-> s.currency_df]),
                   !.hist.exports = @ + 1,
                   !.hist.wrapped = FALSE]
    ELSE s

\* The try block, up to the exception it raises.
ticker_try(s, resp, lat) ==
    LET gate == pull_allowed(s)
        time == gate.s.now
        drawn == next_page(gate.s.page_tracker)
        turned == [gate.s EXCEPT !.page_tracker = drawn.pt,
                                 !.hist.calls = IF @ < MaxCalls THEN @ + 1 ELSE @,
                                 !.hist.wrapped = @ \/ (drawn.pt.next_page = 1)]
        sent == Issue(turned, "ticker", drawn.ret, lat)
        pulled == [sent EXCEPT !.last_pull = time]
        response_df == from_records_ticker(resp.data)
    IN IF ~gate.ret THEN [s |-> gate.s, outcome |-> "denied", exc |-> "none"]
       ELSE IF drawn.exc THEN [s |-> turned, outcome |-> "type_error", exc |-> "error"]
       ELSE CASE resp.kind = "transport" -> [s |-> sent, outcome |-> "transport", exc |-> "error"]
              [] resp.kind = "interrupt" -> [s |-> sent, outcome |-> "interrupt", exc |-> "kbd"]
              [] resp.kind = "no_data" -> [s |-> pulled, outcome |-> "no_data", exc |-> "api"]
              [] OTHER ->
                   IF pulled.tracker.first_ticker_added
                   THEN [s |-> [pulled EXCEPT !.currency_df = update(@, response_df),
                                              !.hist.pages_ok = @ \cup {drawn.ret}],
                         outcome |-> "ok", exc |-> "none"]
                   ELSE [s |-> [pulled EXCEPT !.currency_df = merge_left(@, response_df),
                                              !.tracker.first_ticker_added = TRUE,
                                              !.hist.pages_ok = @ \cup {drawn.ret}],
                         outcome |-> "ok", exc |-> "none"]

_update_next_ticker_set(s, resp, lat) ==
    LET body == ticker_try(s, resp, lat)
    IN Outcome(s, ticker_finally(body.s), "ticker", body.outcome, None, body.exc)

-----------------------------------------------------------------------------
\* _initialize_data and _update_data

\* _initialize_data setting the listing flag where the global pull succeeded.
_initialize_data_wrong_flag(s, resp, lat) ==
    IF ~s.tracker.global_content_initialized /\ ~s.tracker.listing_initialized
    THEN LET r == _update_global(s, TRUE, resp, lat)
         IN IF r.exc = "none" /\ r.ret = TRUE
            THEN [r EXCEPT !.s.tracker.listing_initialized = TRUE]
            ELSE r
    ELSE IF ~s.tracker.global_content_initialized
    THEN LET r == _update_global(s, TRUE, resp, lat)
         IN IF r.exc = "none" /\ r.ret = TRUE
            THEN [r EXCEPT !.s.tracker.global_content_initialized = TRUE]
            ELSE r
    ELSE IF ~s.tracker.tickers_initialized
    THEN LET r == _update_next_ticker_set(s, resp, lat)
         IN IF r.exc = "none" /\ r.s.page_tracker.completed_full_cycle
            THEN [r EXCEPT !.s.tracker.tickers_initialized = TRUE]
            ELSE r
    ELSE [s |-> s, ret |-> None, exc |-> "none"]

\* _initialize_data without the assignment of tickers_initialized.
_initialize_data_never_ready(s, resp, lat) ==
    IF ~s.tracker.global_content_initialized
    THEN LET r == _update_global(s, TRUE, resp, lat)
         IN IF r.exc = "none" /\ r.ret = TRUE
            THEN [r EXCEPT !.s.tracker.global_content_initialized = TRUE]
            ELSE r
    ELSE IF ~s.tracker.listing_initialized
    THEN LET r == _update_currency_list(s, TRUE, resp, lat)
         IN IF r.exc = "none" /\ r.ret = TRUE
            THEN [r EXCEPT !.s.tracker.listing_initialized = TRUE]
            ELSE r
    ELSE IF ~s.tracker.tickers_initialized
    THEN _update_next_ticker_set(s, resp, lat)
    ELSE [s |-> s, ret |-> None, exc |-> "none"]

_initialize_data(s, resp, lat) ==
    IF ~s.tracker.global_content_initialized
    THEN LET r == _update_global(s, TRUE, resp, lat)
         IN IF r.exc = "none" /\ r.ret = TRUE
            THEN [r EXCEPT !.s.tracker.global_content_initialized = TRUE]
            ELSE r
    ELSE IF ~s.tracker.listing_initialized
    THEN LET r == _update_currency_list(s, TRUE, resp, lat)
         IN IF r.exc = "none" /\ r.ret = TRUE
            THEN [r EXCEPT !.s.tracker.listing_initialized = TRUE]
            ELSE r
    ELSE IF ~s.tracker.tickers_initialized
    THEN LET r == _update_next_ticker_set(s, resp, lat)
         IN IF r.exc = "none" /\ r.s.page_tracker.completed_full_cycle
            THEN [r EXCEPT !.s.tracker.tickers_initialized = TRUE]
            ELSE r
    ELSE [s |-> s, ret |-> None, exc |-> "none"]

_update_data(s, resp1, lat1, resp2, lat2) ==
    LET r == _update_currency_list(s, FALSE, resp1, lat1)
    IN IF r.exc # "none" THEN r
       ELSE _update_next_ticker_set(r.s, resp2, lat2)

-----------------------------------------------------------------------------
\* run_updater

\* The engine's state as the functions above take it, at the top of an iteration.
Engine ==
    [now |-> now, tracker |-> tracker, page_tracker |-> page_tracker,
     last_pull |-> last_pull, last_listing_update |-> last_listing_update,
     timeout_start |-> timeout_start, in_timeout |-> in_timeout,
     currency_df |-> currency_df,
     obs |-> [Obs0 EXCEPT !.tracker_before = tracker,
                          !.page_tracker_before = page_tracker],
     hist |-> hist]

\* Where an operator's interrupt may reach one iteration, besides inside a request:
\* nowhere, during the sleep of the try block, or inside an except handler (before
\* its log entry is written, or during its sleep).
Interrupts == {"none", "sleep", "handler_log", "handler_sleep"}

sleep(s, kind, secs) ==
    [s EXCEPT !.now = @ + secs, !.obs.sleeps = Append(@, [kind |-> kind, secs |-> secs])]

log(s, message, type_of_message) ==
    [s EXCEPT !.obs.logs = Append(@, [type |-> type_of_message, message |-> message])]

\* error_handler that ends the loop after its log entry instead of backing off.
error_handler_gives_up(s, message, type_of_message, kbd) ==
    IF kbd = "handler_log" THEN [s |-> s, running |-> TRUE, pc |-> "crashed"]
    ELSE IF kbd = "handler_sleep"
    THEN [s |-> log(s, message, type_of_message), running |-> TRUE, pc |-> "crashed"]
    ELSE [s |-> log(s, message, type_of_message), running |-> FALSE, pc |-> "done"]

\* An except handler of the loop that logs and backs off; an interrupt inside it is
\* caught by nothing and ends run_updater with running still set.
error_handler(s, message, type_of_message, kbd) ==
    IF kbd = "handler_log" THEN [s |-> s, running |-> TRUE, pc |-> "crashed"]
    ELSE IF kbd = "handler_sleep"
    THEN [s |-> log(s, message, type_of_message), running |-> TRUE, pc |-> "crashed"]
    ELSE [s |-> sleep(log(s, message, type_of_message), "error_timeout", cfg.error_timeout),
          running |-> TRUE, pc |-> "loop"]

\* route with the normal sleep taken after the API error handler as well.
route_sleeps_twice(r, kbd) ==
    CASE r.exc = "none" /\ kbd # "sleep" ->
           [s |-> sleep(r.s, "timeout", cfg.timeout), running |-> TRUE, pc |-> "loop"]
      [] r.exc = "kbd" \/ (r.exc = "none" /\ kbd = "sleep") ->
           [s |-> log([r.s EXCEPT !.obs.exc = "kbd"], "exit", "error"),
            running |-> FALSE, pc |-> "done"]
      [] r.exc = "api" ->
           LET h == error_handler([r.s EXCEPT !.obs.exc = "api"], "metadata", "api_error", kbd)
           IN IF h.pc = "loop" THEN [h EXCEPT !.s = sleep(@, "timeout", cfg.timeout)] ELSE h
      [] OTHER ->
           error_handler([r.s EXCEPT !.obs.exc = "error"], "traceback", "error", kbd)

\* The rest of the iteration once the update function returned or raised (r).
route(r, kbd) ==
    CASE r.exc = "none" /\ kbd # "sleep" ->
           [s |-> sleep(r.s, "timeout", cfg.timeout), running |-> TRUE, pc |-> "loop"]
      [] r.exc = "kbd" \/ (r.exc = "none" /\ kbd = "sleep") ->
           [s |-> log([r.s EXCEPT !.obs.exc = "kbd"], "exit", "error"),
            running |-> FALSE, pc |-> "done"]
      [] r.exc = "api" ->
           error_handler([r.s EXCEPT !.obs.exc = "api"], "metadata", "api_error", kbd)
      [] OTHER ->
           error_handler([r.s EXCEPT !.obs.exc = "error"], "traceback", "error", kbd)

\* The interrupt points that exist in an iteration whose update function ended with exc.
InterruptsOf(exc) ==
    CASE exc = "none" -> {"none", "sleep"}
      [] exc = "kbd" -> {"none"}
      [] OTHER -> {"none", "handler_log", "handler_sleep"}

Iteration(branch, r, kbd) ==
    LET out == route(r, kbd)
    IN /\ kbd \in InterruptsOf(r.exc)
       /\ now' = out.s.now
       /\ tracker' = out.s.tracker
       /\ page_tracker' = out.s.page_tracker
       /\ last_pull' = out.s.last_pull
       /\ last_listing_update' = out.s.last_listing_update
       /\ timeout_start' = out.s.timeout_start
       /\ in_timeout' = out.s.in_timeout
       /\ currency_df' = out.s.currency_df
       /\ obs' = [out.s.obs EXCEPT !.branch = branch, !.ret = r.ret,
                                   !.interrupt = IF r.exc = "kbd" THEN "pull" ELSE kbd]
       /\ hist' = out.s.hist
       /\ running' = out.running
       /\ pc' = out.pc
       /\ UNCHANGED cfg

Latencies == 0..MaxLatency

Looping == pc = "loop" /\ running /\ now <= MaxTime

run_updater ==
    /\ pc = "start"
    /\ pc' = "loop"
    /\ running' = TRUE
    /\ UNCHANGED <<cfg, now, tracker, page_tracker, last_pull, last_listing_update,
                   timeout_start, in_timeout, currency_df, obs, hist>>

\* The inputs of a call that sends no request are not read: they are drawn only
\* where a request reads them.
Unread(resp, lat) == resp.kind = "no_data" /\ lat = 0

InitializeGlobal ==
    /\ Looping
    /\ ~initialized(tracker) /\ ~tracker.global_content_initialized
    /\ \E resp \in Responses(ActiveCryptocurrencies), lat \in Latencies, kbd \in Interrupts :
         LET r == _initialize_data(Engine, resp, lat)
         IN /\ r.s.obs.issued = <<>> => Unread(resp, lat)
            /\ Iteration("global", r, kbd)

InitializeListing ==
    /\ Looping
    /\ ~initialized(tracker) /\ tracker.global_content_initialized
    /\ ~tracker.listing_initialized
    /\ \E resp \in Responses(ListingData), lat \in Latencies, kbd \in Interrupts :
         LET r == _initialize_data(Engine, resp, lat)
         IN /\ r.s.obs.issued = <<>> => Unread(resp, lat)
            /\ Iteration("listing", r, kbd)

InitializeTickers ==
    /\ Looping
    /\ ~initialized(tracker) /\ tracker.global_content_initialized
    /\ tracker.listing_initialized
    /\ \E resp \in Responses(TickerData), lat \in Latencies, kbd \in Interrupts :
         LET r == _initialize_data(Engine, resp, lat)
         IN /\ r.s.obs.issued = <<>> => Unread(resp, lat)
            /\ Iteration("tickers", r, kbd)

UpdateData ==
    /\ Looping
    /\ initialized(tracker)
    /\ \E resp1 \in Responses(ListingData), lat1 \in Latencies :
         LET first == _update_currency_list(Engine, FALSE, resp1, lat1)
         IN /\ first.s.obs.issued = <<>> => Unread(resp1, lat1)
            /\ \E resp2 \in Responses(TickerData), lat2 \in Latencies, kbd \in Interrupts :
                 LET r == _update_data(Engine, resp1, lat1, resp2, lat2)
                 IN /\ Len(r.s.obs.issued) = Len(first.s.obs.issued)
                         => Unread(resp2, lat2)
                    /\ Iteration("update", r, kbd)

\* __init__: the state a new engine starts in, for every configuration.
Init ==
    /\ cfg \in Configs
    /\ now = 0
    /\ pc = "start"
    /\ running = FALSE
    /\ tracker = InitializedStruct
    /\ page_tracker = PageTracker(cfg.page_length, None)
    /\ last_pull = now
    /\ last_listing_update = now
    /\ timeout_start = None
    /\ in_timeout = FALSE
    /\ currency_df = DataFrameEmpty
    /\ obs = Obs0
    /\ hist = Hist0

Next ==
    \/ run_updater
    \/ InitializeGlobal
    \/ InitializeListing
    \/ InitializeTickers
    \/ UpdateData

Spec == Init /\ [][Next]_vars

-----------------------------------------------------------------------------
\* The page tracker on its own: a tracker of any page length whose max_page has been
\* set, drawn from MaxCalls times.

MaxPageLength == 3
MaxMaxPage == 5
CursorPageLengths == 1..MaxPageLength \cup {100}
CursorMaxPages == 1..MaxMaxPage \cup {250}

FixedConfig(page_length) ==
    [pull_frequency_minimum_interval |-> 1, timeout |-> 1, error_timeout |-> 1,
     refresh_period |-> 1, listing_pull_frequency |-> 2, global_pull_frequency |-> 1,
     page_length |-> page_length]

InitCursor ==
    /\ cfg \in {FixedConfig(l) : l \in CursorPageLengths}
    /\ now = 0
    /\ pc = "cursor"
    /\ running = FALSE
    /\ tracker = InitializedStruct
    /\ \E m \in CursorMaxPages :
         page_tracker = [PageTracker(cfg.page_length, None) EXCEPT !.max_page = m]
    /\ last_pull = now
    /\ last_listing_update = now
    /\ timeout_start = None
    /\ in_timeout = FALSE
    /\ currency_df = DataFrameEmpty
    /\ obs = Obs0
    /\ hist = Hist0

CursorDraw ==
    /\ pc = "cursor"
    /\ hist.calls < MaxCalls
    /\ LET drawn == next_page(page_tracker)
       IN /\ page_tracker' = drawn.pt
          /\ obs' = [Obs0 EXCEPT !.ret = drawn.ret, !.page_tracker_before = page_tracker]
          /\ hist' = [hist EXCEPT !.calls = @ + 1]
    /\ UNCHANGED <<cfg, now, pc, running, tracker, last_pull, last_listing_update,
                   timeout_start, in_timeout, currency_df>>

NextCursor == CursorDraw

SpecCursor == InitCursor /\ [][NextCursor]_vars

-----------------------------------------------------------------------------
\* The pull gate on its own: any clock, last pull and cool-down start; the gate is
\* queried, time passes, a pull is recorded, a cool-down is opened.

GateConfigs ==
    { [FixedConfig(100) EXCEPT !.pull_frequency_minimum_interval = m, !.refresh_period = r] :
        m \in Seconds, r \in Seconds }

InitGate ==
    /\ cfg \in GateConfigs
    /\ now \in 0..MaxTime
    /\ pc = "gate"
    /\ running = FALSE
    /\ tracker = InitializedStruct
    /\ page_tracker = PageTracker(cfg.page_length, None)
    /\ last_pull \in 0..now
    /\ last_listing_update = 0
    /\ timeout_start \in {None} \cup 0..now
    /\ in_timeout = FALSE
    /\ currency_df = DataFrameEmpty
    /\ obs = Obs0
    /\ hist = Hist0

GateQuery ==
    /\ pc = "gate"
    /\ LET gate == pull_allowed(Engine)
       IN /\ in_timeout' = gate.s.in_timeout
          /\ obs' = [gate.s.obs EXCEPT !.ret = gate.ret]
    /\ UNCHANGED <<cfg, now, pc, running, tracker, page_tracker, last_pull,
                   last_listing_update, timeout_start, currency_df, hist>>

GateTick ==
    /\ pc = "gate"
    /\ now < MaxTime
    /\ now' = now + 1
    /\ UNCHANGED <<cfg, pc, running, tracker, page_tracker, last_pull,
                   last_listing_update, timeout_start, in_timeout, currency_df, obs, hist>>

GateRecordPull ==
    /\ pc = "gate"
    /\ last_pull' = now
    /\ obs' = Obs0
    /\ UNCHANGED <<cfg, now, pc, running, tracker, page_tracker,
                   last_listing_update, timeout_start, in_timeout, currency_df, hist>>

NextGate == GateQuery \/ GateTick \/ GateRecordPull

SpecGate == InitGate /\ [][NextGate]_vars

-----------------------------------------------------------------------------
\* The ticker merge on its own: self._currency_df.update(response_df) applied to any
\* table the first merge can have left (index 0..n-1) and any ticker page.

MaxRows == 3
MaxPageId == 2

\* The tables pd.merge(how='left') leaves: a fresh index, any key, any or no price.
MergeTables ==
    UNION { { DataFrame([i \in 1..n |-> [idx |-> i - 1, key |-> k[i], price |-> q[i]]]) :
                k \in [1..n -> 1..MaxPageId], q \in [1..n -> Prices \cup {NA}] } :
            n \in 0..MaxRows }

\* The ticker pages: rows sorted by id, each with a price or a null.
MergePages ==
    UNION { { [i \in 1..Cardinality(S) |->
                 [id |-> SortedSeq(S)[i], key |-> SortedSeq(S)[i], price |-> f[SortedSeq(S)[i]]]] :
              f \in [S -> Prices \cup {NA}] } : S \in SUBSET (1..MaxPageId) \ {{}} }

InitMerge ==
    /\ cfg = FixedConfig(MaxPageId)
    /\ now = 0
    /\ pc = "merge"
    /\ running = FALSE
    /\ tracker = [InitializedStruct EXCEPT !.first_ticker_added = TRUE]
    /\ page_tracker = PageTracker(cfg.page_length, None)
    /\ last_pull = now
    /\ last_listing_update = now
    /\ timeout_start = None
    /\ in_timeout = FALSE
    /\ currency_df \in MergeTables
    /\ \E data \in MergePages : obs = [Obs0 EXCEPT !.response_df = from_records_ticker(data)]
    /\ hist = Hist0

\* Lines 313-314, with the page already held in response_df; at most twice.
TickerUpdate ==
    /\ pc = "merge"
    /\ tracker.first_ticker_added
    /\ hist.calls < 2
    /\ currency_df' = update(currency_df, obs.response_df)
    /\ hist' = [hist EXCEPT !.calls = @ + 1]
    /\ UNCHANGED <<cfg, now, pc, running, tracker, page_tracker, last_pull,
                   last_listing_update, timeout_start, in_timeout, obs>>

NextMerge == TickerUpdate

SpecMerge == InitMerge /\ [][NextMerge]_vars

-----------------------------------------------------------------------------
\* The loop without an end.  while(self.running) has no iteration limit, so the
\* engine is run here with no bound on its clock: after each iteration the times
\* the engine holds are moved back together (their differences are all the code
\* reads) and a time older than Horizon, which exceeds every configured interval,
\* is held at that age.  The observations that grow with the run are dropped.  No
\* interrupt is delivered, and the requests of a run fail at most hist.budget times.

MaxFailures == 2
MaxCycle == 3

Horizon == MaxTime + 1

shift(x, d) == IF x = None THEN None ELSE IF x - d < 0 THEN 0 ELSE x - d

rebase(s) ==
    LET d == IF s.now > Horizon THEN s.now - Horizon ELSE 0
    IN [s EXCEPT !.now = @ - d,
                 !.last_pull = shift(@, d),
                 !.last_listing_update = shift(@, d),
                 !.timeout_start = shift(@, d)]

\* What get(...).json() may do in a run without interrupts.
LiveResponses(payloads) ==
    {resp \in Responses(payloads) : resp.kind # "interrupt"}

\* The numbers of active currencies that give a cycle of at most MaxCycle pages.
LiveActiveCryptocurrencies ==
    {m \in ActiveCryptocurrencies : m <= MaxCycle * cfg.page_length}

Failed(r) == \E i \in 1..Len(r.s.obs.attempts) :
                r.s.obs.attempts[i].outcome \in {"no_data", "transport"}

\* A failing request is taken from the budget of the run.
WithinBudget(r) == Failed(r) => hist.failed < hist.budget

LiveIteration(branch, r) ==
    \E out \in {route(r, "none")} : \E s \in {rebase(out.s)} :
       /\ WithinBudget(r)
       /\ now' = s.now
       /\ tracker' = s.tracker
       /\ page_tracker' = s.page_tracker
       /\ last_pull' = s.last_pull
       /\ last_listing_update' = s.last_listing_update
       /\ timeout_start' = s.timeout_start
       /\ in_timeout' = s.in_timeout
       /\ currency_df' = s.currency_df
       /\ obs' = [Obs0 EXCEPT !.branch = branch, !.attempts = s.obs.attempts,
                              !.exc = s.obs.exc, !.logs = s.obs.logs]
       /\ hist' = [Hist0 EXCEPT !.budget = hist.budget,
                                !.failed = IF Failed(r) THEN hist.failed + 1 ELSE hist.failed,
                                !.exports = IF s.hist.exports > 0 THEN 1 ELSE 0,
                                !.tick = 1 - hist.tick]
       /\ running' = out.running
       /\ pc' = out.pc
       /\ UNCHANGED cfg

LiveInitializeGlobal ==
    /\ pc = "loop" /\ running
    /\ ~initialized(tracker) /\ ~tracker.global_content_initialized
    /\ \E resp \in LiveResponses(LiveActiveCryptocurrencies), lat \in Latencies :
         \E r \in {_initialize_data(Engine, resp, lat)} :
            /\ r.s.obs.issued = <<>> => Unread(resp, lat)
            /\ LiveIteration("global", r)

LiveInitializeListing ==
    /\ pc = "loop" /\ running
    /\ ~initialized(tracker) /\ tracker.global_content_initialized
    /\ ~tracker.listing_initialized
    /\ \E resp \in LiveResponses(ListingData), lat \in Latencies :
         \E r \in {_initialize_data(Engine, resp, lat)} :
            /\ r.s.obs.issued = <<>> => Unread(resp, lat)
            /\ LiveIteration("listing", r)

LiveInitializeTickers ==
    /\ pc = "loop" /\ running
    /\ ~initialized(tracker) /\ tracker.global_content_initialized
    /\ tracker.listing_initialized
    /\ \E resp \in LiveResponses(TickerData), lat \in Latencies :
         \E r \in {_initialize_data(Engine, resp, lat)} :
            /\ r.s.obs.issued = <<>> => Unread(resp, lat)
            /\ LiveIteration("tickers", r)

LiveUpdateData ==
    /\ pc = "loop" /\ running
    /\ initialized(tracker)
    /\ \E resp1 \in LiveResponses(ListingData), lat1 \in Latencies :
         \E first \in {_update_currency_list(Engine, FALSE, resp1, lat1)} :
            /\ first.s.obs.issued = <<>> => Unread(resp1, lat1)
            /\ \E resp2 \in LiveResponses(TickerData), lat2 \in Latencies :
                 \E r \in {_update_data(Engine, resp1, lat1, resp2, lat2)} :
                    /\ Len(r.s.obs.issued) = Len(first.s.obs.issued)
                         => Unread(resp2, lat2)
                    /\ LiveIteration("update", r)

InitLive ==
    /\ cfg \in Configs
    /\ now = 0
    /\ pc = "start"
    /\ running = FALSE
    /\ tracker = InitializedStruct
    /\ page_tracker = PageTracker(cfg.page_length, None)
    /\ last_pull = now
    /\ last_listing_update = now
    /\ timeout_start = None
    /\ in_timeout = FALSE
    /\ currency_df = DataFrameEmpty
    /\ obs = Obs0
    /\ \E b \in 0..MaxFailures : hist = [Hist0 EXCEPT !.budget = b]

NextLive ==
    \/ run_updater
    \/ LiveInitializeGlobal
    \/ LiveInitializeListing
    \/ LiveInitializeTickers
    \/ LiveUpdateData

\* The loop is one thread: run_updater is entered, and the next iteration runs
\* whenever the last one has ended (time.sleep returns, and get returns or raises).
\* hist.tick changes with every iteration, so that the iterations never stop is
\* said as: hist.tick changes for ever.
SpecLive ==
    /\ InitLive /\ [][NextLive]_vars
    /\ WF_vars(run_updater)
    /\ []<>(hist.tick = 0) /\ []<>(hist.tick = 1)

-----------------------------------------------------------------------------
\* Properties

Attempts == {obs.attempts[i] : i \in 1..Len(obs.attempts)}
Issued == {obs.issued[i] : i \in 1..Len(obs.issued)}
Exported == {obs.exports[i] : i \in 1..Len(obs.exports)}
Gates == {obs.gates[i] : i \in 1..Len(obs.gates)}

\* The pages of one cycle of a tracker whose max_page is set.
NumPages(pt) == ((pt.max_page - 1) \div pt.page_length) + 1
CyclePages(pt) == {1 + k * pt.page_length : k \in 0..(NumPages(pt) - 1)}

\* C1: the stages come in order.  The listing flag is never set without the global
\* flag, nor the tickers flag without the listing flag; an iteration that attempts a
\* listing pull started with the global flag set, one that attempts a ticker pull
\* started with the listing flag set; and the update branch (ready) is taken only
\* with all three flags set.
C1_StagesInOrder ==
    /\ tracker.listing_initialized => tracker.global_content_initialized
    /\ tracker.tickers_initialized => tracker.listing_initialized
    /\ \A a \in Attempts :
         /\ a.ep = "listing" => obs.tracker_before.global_content_initialized
         /\ a.ep = "ticker" => obs.tracker_before.listing_initialized
    /\ obs.branch = "update" =>
         /\ obs.tracker_before.global_content_initialized
         /\ obs.tracker_before.listing_initialized
         /\ obs.tracker_before.tickers_initialized
    /\ initialized(tracker) =>
         /\ tracker.global_content_initialized
         /\ tracker.listing_initialized
         /\ tracker.tickers_initialized

\* C1's case: a ready engine ran an update iteration that attempted both pulls.
C1_Witness ==
    /\ initialized(tracker)
    /\ obs.branch = "update"
    /\ \E a \in Attempts : a.ep = "listing"
    /\ \E a \in Attempts : a.ep = "ticker"

\* C2: a ticker attempt that does not succeed (denied by the gate, no data, transport
\* error) leaves the page tracker where it was, and the tickers flag is set only
\* once every page of the cycle has been pulled successfully.
C2_FailedTickerKeepsPage ==
    /\ \A a \in Attempts :
         (a.ep = "ticker" /\ a.outcome # "ok") => page_tracker = obs.page_tracker_before
    /\ tracker.tickers_initialized => CyclePages(page_tracker) \subseteq hist.pages_ok

\* C3: with max_page > page_length the k-th call of next_page returns
\* 1 + ((k-1) mod n) * page_length, n the number of pages 1, 1+L, ... not above
\* max_page, and leaves the pointer at the page the next call returns; the first call
\* returns 1 and leaves the pointer at L+1; for L=100, M=250 the calls return
\* 1, 101, 201, 1, 101, 201, 1.
C3_PageSequence ==
    (pc = "cursor" /\ page_tracker.max_page > page_tracker.page_length /\ hist.calls >= 1) =>
        LET L == page_tracker.page_length
            M == page_tracker.max_page
            n == NumPages(page_tracker)
            k == hist.calls
        IN /\ obs.ret = 1 + ((k - 1) % n) * L
           /\ obs.ret <= M
           /\ obs.ret = page_tracker.last_page
           /\ page_tracker.next_page = 1 + (k % n) * L
           /\ k = 1 => (obs.ret = 1 /\ page_tracker.next_page = L + 1)
           /\ k > 1 => obs.ret = obs.page_tracker_before.next_page
           /\ (L = 100 /\ M = 250 /\ k <= 7) => obs.ret = <<1, 101, 201, 1, 101, 201, 1>>[k]

\* C3's case: the tracker of page length 100 and max_page 250 returned 1 on its
\* fourth call.
C3_Witness ==
    /\ pc = "cursor"
    /\ page_tracker.page_length = 100 /\ page_tracker.max_page = 250
    /\ hist.calls = 4 /\ obs.ret = 1

\* C4 as stated: for page length 100 and max_page 250, completed_full_cycle is true
\* after the calls 4, 7, 10, ... and false after every other call.
C4_CompletedOnlyOnWrapCalls ==
    (pc = "cursor" /\ page_tracker.page_length = 100 /\ page_tracker.max_page = 250
       /\ hist.calls >= 1) =>
        (page_tracker.completed_full_cycle <=> (hist.calls >= 4 /\ (hist.calls - 1) % 3 = 0))

\* C4 amended: completed_full_cycle is set by the call that wraps the pointer and is
\* never cleared.  With max_page > page_length it is true exactly from the n-th call
\* on (n the number of pages of a cycle); for L=100, M=250 it is false after calls 1
\* and 2 and true after call 3 and every later call.
C4_CompletedIsSticky ==
    (pc = "cursor" /\ page_tracker.max_page > page_tracker.page_length) =>
        /\ page_tracker.completed_full_cycle <=> hist.calls >= NumPages(page_tracker)
        /\ (page_tracker.page_length = 100 /\ page_tracker.max_page = 250) =>
             (page_tracker.completed_full_cycle <=> hist.calls >= 3)

\* C4's case: the call after a wrap (the fifth, for L=100, M=250) leaves the flag set.
C4_Witness ==
    /\ pc = "cursor"
    /\ page_tracker.page_length = 100 /\ page_tracker.max_page = 250
    /\ hist.calls = 5 /\ page_tracker.completed_full_cycle

\* C5: every evaluation of the gate returns true iff more than the minimum interval
\* has passed since last_pull and no cool-down is active (timeout_start unset, or
\* more than refresh_period ago).  In particular it returns false at every time in
\* (T, T + minimum interval] after a pull recorded at T, and true at every later time
\* when no cool-down is active.
C5_GateContract ==
    \A g \in Gates :
        LET interval == cfg.pull_frequency_minimum_interval
            cooling == g.timeout_start # None /\ (g.at - g.timeout_start) <= cfg.refresh_period
        IN /\ g.ret <=> ((g.at - g.last_pull) > interval /\ ~cooling)
           /\ (g.at > g.last_pull /\ g.at <= g.last_pull + interval) => ~g.ret
           /\ (g.at > g.last_pull + interval /\ ~cooling) => g.ret
           /\ pc = "gate" => (obs.ret = g.ret /\ (g.at = now => in_timeout = cooling))

\* C5's case: the gate allowed a pull after a cool-down that had run out.
C5_Witness ==
    /\ pc = "gate"
    /\ \E g \in Gates : g.ret /\ g.timeout_start # None /\ g.at = g.last_pull + cfg.pull_frequency_minimum_interval + 1

\* C6: every request is issued more than the minimum interval after the request
\* before it, whatever the endpoints and however the earlier request ended.
C6_MinIntervalBetweenRequests ==
    \A r \in Issued :
        r.since # None => (r.at - r.since) > cfg.pull_frequency_minimum_interval

\* C7: a snapshot that is not the first is exported only after the page tracker has
\* wrapped again since the snapshot before it.
C7_OneExportPerCycle ==
    \A e \in Exported : e.nth > 1 => e.wrapped


\* The requests of an initialization in which every pull succeeds, for page length
\* 100 and 250 active currencies.
ExpectedInit ==
    <<[ep |-> "global", page |-> None], [ep |-> "listing", page |-> None],
      [ep |-> "ticker", page |-> 1], [ep |-> "ticker", page |-> 101],
      [ep |-> "ticker", page |-> 201]>>

IsPrefix(a, b) == Len(a) <= Len(b) /\ a = SubSeq(b, 1, Len(a))

\* C8: while every pull has succeeded, with page length 100 and 250 active
\* currencies, the requests of the initialization are a prefix of global, listing,
\* ticker 1, ticker 101, ticker 201; the engine is ready exactly when all five have
\* been made; no snapshot is exported before that; and the iteration that makes the
\* third ticker pull leaves completed_full_cycle set, the engine ready and exactly one
\* snapshot exported.
C8_AllPullsSucceed ==
    (pc \in {"loop", "done", "crashed"} /\ hist.all_ok /\ cfg.page_length = 100
       /\ page_tracker.max_page \in {None, 250}) =>
        /\ IsPrefix(hist.init_requests, ExpectedInit)
        /\ initialized(tracker) <=> Len(hist.init_requests) = 5
        /\ ~initialized(tracker) => hist.exports = 0
        /\ initialized(tracker) => page_tracker.completed_full_cycle
        /\ (initialized(tracker) /\ obs.branch = "tickers") =>
             /\ hist.exports = 1
             /\ Len(obs.exports) = 1
             /\ obs.issued[1].page = 201
             /\ hist.pages_ok = {1, 101, 201}

\* C8's case: the third ticker pull of such a run has just made the engine ready.
C8_Witness ==
    /\ hist.all_ok /\ cfg.page_length = 100 /\ page_tracker.max_page = 250
    /\ initialized(tracker) /\ obs.branch = "tickers"
    /\ Len(hist.init_requests) = 5

\* C9: an attempt that does not end in a successful pull (denied by the gate, no
\* data, transport or parsing failure, merge failure, interrupt) leaves the table as
\* it was.
C9_FailedPullKeepsTable ==
    \A a \in Attempts : a.outcome # "ok" => ~a.changed

\* C9's case: a ticker pull came back without data while the table held merged rows.
C9_Witness ==
    /\ currency_df.df /\ tracker.first_ticker_added
    /\ \E a \in Attempts : a.ep = "ticker" /\ a.outcome = "no_data"

\* C10: an iteration whose global pull returned no data leaves the tracker's flags
\* and the unset max_page as they were and is routed as an API error; when the loop
\* resumes it has written exactly one log entry, of type api_error, and slept exactly
\* once, for error_timeout.
C10_GlobalNoData ==
    (\E a \in Attempts : a.ep = "global" /\ a.outcome = "no_data") =>
        /\ tracker = obs.tracker_before
        /\ page_tracker = obs.page_tracker_before
        /\ page_tracker.max_page = None
        /\ obs.exc = "api"
        /\ \A i \in 1..Len(obs.sleeps) : obs.sleeps[i].kind # "timeout"
        /\ pc = "loop" =>
             /\ obs.logs = <<[type |-> "api_error", message |-> "metadata"]>>
             /\ obs.sleeps = <<[kind |-> "error_timeout", secs |-> cfg.error_timeout]>>
             /\ \E lat \in Latencies : now = obs.issued[1].at + lat + cfg.error_timeout

\* C10's case: the loop resumed after a global pull without data.
C10_Witness ==
    /\ pc = "loop"
    /\ \E a \in Attempts : a.ep = "global" /\ a.outcome = "no_data"

C12_ShutdownIsClean ==
    obs.interrupt # "none"
      => /\ pc = "done" /\ ~running
         /\ obs.logs # <<>>
         /\ obs.logs[Len(obs.logs)] = [type |-> "error", message |-> "exit"]

\* C13: the ticker merge of a later page is idempotent.  Once a page has been merged
\* into the table, merging the same page again leaves the table as it is.
C13_TickerMergeIdempotent ==
    (pc = "merge" /\ hist.calls >= 1)
      => update(currency_df, obs.response_df) = currency_df

\* C13's case: the page was merged twice, and one of its rows carries a price for a
\* row of the table while another row of the table is out of the page's reach.
C13_Witness ==
    /\ pc = "merge" /\ hist.calls = 2
    /\ \E i \in 1..Len(currency_df.rows) :
         \E j \in 1..Len(obs.response_df.rows) :
            /\ obs.response_df.rows[j].idx = currency_df.rows[i].idx
            /\ obs.response_df.rows[j].price = currency_df.rows[i].price
            /\ currency_df.rows[i].price # NA
    /\ \E i \in 1..Len(currency_df.rows) :
         \A j \in 1..Len(obs.response_df.rows) :
            obs.response_df.rows[j].idx # currency_df.rows[i].idx

\* C16: every request of an iteration was sent on a gate evaluation of its own, made
\* by the same function at the same reading of the clock, that returned true; and at
\* that moment no cool-down was running.
C16_RequestsAreGated ==
    \A i \in 1..Len(obs.issued) :
        LET r == obs.issued[i]
        IN /\ r.gate \in 1..Len(obs.gates)
           /\ obs.gates[r.gate].ret
           /\ obs.gates[r.gate].at = r.at
           /\ \/ obs.gates[r.gate].timeout_start = None
              \/ r.at - obs.gates[r.gate].timeout_start > cfg.refresh_period
           /\ \A j \in 1..(i - 1) : obs.issued[j].gate # r.gate

\* C16's case: a request went out after a cool-down had been opened and had run out.
C16_Witness ==
    \E r \in Issued :
        /\ r.gate \in 1..Len(obs.gates)
        /\ obs.gates[r.gate].timeout_start # None
        /\ obs.gates[r.gate].ret

\* C17: a listing request of a ready engine goes out more than the listing
\* pull_frequency after the previous listing pull that returned data.
C17_ListingOnlyWhenStale ==
    \A r \in Issued :
        (r.ep = "listing" /\ obs.branch = "update" /\ r.listing_since # None)
          => r.at - r.listing_since > cfg.listing_pull_frequency

\* C18: every page next_page returns lies in 1..max_page, whatever the page length;
\* with max_page < page_length the first call leaves the pointer at 1 and no call
\* returns page_length + 1.
C18_PagesWithinMax ==
    (pc = "cursor" /\ hist.calls >= 1) =>
        /\ obs.ret \in 1..page_tracker.max_page
        /\ page_tracker.max_page < page_tracker.page_length =>
              /\ obs.ret # page_tracker.page_length + 1
              /\ page_tracker.next_page = 1

\* C19: an iteration exports a snapshot only when its ticker pull succeeded and
\* wrapped the cursor.
C19_ExportOnlyAfterWrappingPull ==
    obs.exports # <<>> =>
        /\ \E a \in Attempts : a.ep = "ticker" /\ a.outcome = "ok"
        /\ coming_page(page_tracker) = 1
        /\ \E r \in Issued : r.ep = "ticker"

\* C20: next_page is never called while max_page is unknown.  An iteration whose
\* ticker attempt got past the gate (and so drew a page) started with max_page set,
\* and no draw ever failed on the comparison with an unset max_page.
C20_MaxPageKnownWhenDrawn ==
    /\ \A a \in Attempts :
         /\ a.outcome # "type_error"
         /\ (a.ep = "ticker" /\ a.outcome # "denied")
               => obs.page_tracker_before.max_page # None
    /\ page_tracker.next_page # None => page_tracker.max_page # None

\* C20's case: the first page was drawn, by a ticker pull that then succeeded.
C20_Witness ==
    /\ obs.page_tracker_before.next_page = None
    /\ obs.page_tracker_before.max_page # None
    /\ \E a \in Attempts : a.ep = "ticker" /\ a.outcome = "ok"

\* C14: in a run where no request ever fails, a ready engine keeps refreshing
\* tickers: from every state of a ready engine, an update iteration with a
\* successful ticker pull follows.
C14_TickerRefreshProgresses ==
    [](( /\ pc = "loop" /\ initialized(tracker) /\ hist.budget = 0 )
         => <>( /\ obs.branch = "update"
                /\ \E a \in Attempts : a.ep = "ticker" /\ a.outcome = "ok" ))

\* C15: the engine becomes ready in every run in which the requests fail at most
\* finitely often.
C15_EventuallyReady == <>initialized(tracker)

\* C15's case: an engine became ready in a run in which requests failed, the gate
\* denied pulls, and the cool-down of the snapshot was opened.
C15_Witness ==
    /\ pc = "loop" /\ initialized(tracker)
    /\ hist.budget = MaxFailures /\ hist.failed = MaxFailures
    /\ timeout_start # None
    /\ obs.branch = "tickers"
    /\ \E a \in Attempts : a.ep = "ticker" /\ a.outcome = "denied"
====
